---------------------------- MODULE Spec2Model ----------------------------
(***************************************************************************)
(* Model of src/src/preprocessing.py: class PDFPreprocessor.               *)
(*                                                                         *)
(*   __init__               stores the chunking configuration              *)
(*   extract_text_from_pdf  pdfplumber first, PyPDF2 as fallback           *)
(*   clean_text             five regular-expression / split steps          *)
(*                                                                         *)
(* A Python str is modelled as a sequence of one-character strings, so     *)
(* that the regular expressions can be evaluated character by character.   *)
(***************************************************************************)
EXTENDS Integers, Sequences, FiniteSets, TLC

VARIABLES
    constructed,    \* has __init__ returned for the object
    chunk_size,     \* self.chunk_size
    chunk_overlap,  \* self.chunk_overlap
    stop_words,     \* self.stop_words
    init_error,     \* exception raised by __init__ ("none" when it returned)
    pdf_path,       \* argument of extract_text_from_pdf
    pdf,            \* what the two libraries do with the file at pdf_path
    pc,             \* position inside extract_text_from_pdf
    page,           \* index of the page the running loop is at
    text,           \* local variable text of extract_text_from_pdf
    attempts,       \* the library opens made by the call, in order
    log,            \* the logger calls made by the call, in order
    result,         \* value returned by extract_text_from_pdf
    error,          \* exception that left extract_text_from_pdf
    raw,            \* the string first handed to clean_text
    previous,       \* the argument of the latest clean_text call
    cleaned,        \* the latest value returned by clean_text
    ncalls          \* number of clean_text calls made on raw so far

config_vars  == <<constructed, chunk_size, chunk_overlap, stop_words, init_error>>
extract_vars == <<pdf_path, pdf, pc, page, text, attempts, log, result, error>>
clean_vars   == <<raw, previous, cleaned, ncalls>>
vars == <<config_vars, extract_vars, clean_vars>>

(***************************************************************************)
(* Character classes of Python's re module on str patterns, for the        *)
(* characters U+0000..U+00FF: the ones a string of this module can hold.   *)
(***************************************************************************)
\* \s, and the characters str.split() and str.strip() take for whitespace:
\* U+0009..U+000D, U+001C..U+001F, U+0020, U+0085, U+00A0
Whitespace ==
    {"\t", "\n", "", "\f", "\r", "", "", "", "", " ",
     "", " "}

\* \d
Digit == {"0", "1", "2", "3", "4", "5", "6", "7", "8", "9"}

\* the alphanumerics of \w that are not digits: a-z, A-Z, and those of
\* U+00AA..U+00FF
Letter ==
    {"a", "b", "c", "d", "e", "f", "g", "h", "i", "j", "k", "l", "m",
     "n", "o", "p", "q", "r", "s", "t", "u", "v", "w", "x", "y", "z",
     "A", "B", "C", "D", "E", "F", "G", "H", "I", "J", "K", "L", "M",
     "N", "O", "P", "Q", "R", "S", "T", "U", "V", "W", "X", "Y", "Z",
     "ª", "²", "³", "µ", "¹", "º", "¼", "½", "¾", "À", "Á", "Â", "Ã",
     "Ä", "Å", "Æ", "Ç", "È", "É", "Ê", "Ë", "Ì", "Í", "Î", "Ï", "Ð",
     "Ñ", "Ò", "Ó", "Ô", "Õ", "Ö", "Ø", "Ù", "Ú", "Û", "Ü", "Ý", "Þ",
     "ß", "à", "á", "â", "ã", "ä", "å", "æ", "ç", "è", "é", "ê", "ë",
     "ì", "í", "î", "ï", "ð", "ñ", "ò", "ó", "ô", "õ", "ö", "ø", "ù",
     "ú", "û", "ü", "ý", "þ", "ÿ"}

\* \w
WordChar == Letter \cup Digit \cup {"_"}

\* the punctuation the character class of line 97 keeps: \. \, \- \$ \% \( \)
KeptPunct == {".", ",", "-", "$", "%", "(", ")"}

\* the complement of [^\w\s\.\,\-\$\%\(\)]
AllowedChar == WordChar \cup Whitespace \cup KeptPunct

(***************************************************************************)
(* Helpers of the regular-expression engine.                               *)
(***************************************************************************)
RECURSIVE SkipRun(_, _, _)
\* the first index j >= i at which s[j] is not in class (Len(s)+1 if none):
\* where a greedy  class*  started at i stops
SkipRun(s, i, class) ==
    IF i <= Len(s) /\ s[i] \in class THEN SkipRun(s, i + 1, class) ELSE i

RECURSIVE SkipUntil(_, _, _)
\* the first index j >= i at which s[j] is in class (Len(s)+1 if none)
SkipUntil(s, i, class) ==
    IF i <= Len(s) /\ s[i] \notin class THEN SkipUntil(s, i + 1, class) ELSE i

Range(s) == {s[i] : i \in 1..Len(s)}

\* does the literal lit occur in s at index i
HasLit(s, i, lit) ==
    /\ i + Len(lit) - 1 <= Len(s)
    /\ SubSeq(s, i, i + Len(lit) - 1) = lit

\* \b at the position between s[i-1] and s[i]
WordBoundary(s, i) ==
    (i > 1 /\ s[i - 1] \in WordChar) # (i <= Len(s) /\ s[i] \in WordChar)

(***************************************************************************)
(* clean_text, step by step (lines 93-106).                                *)
(***************************************************************************)
RECURSIVE sub_whitespace_from(_, _)
sub_whitespace_from(s, i) ==
    IF i > Len(s) THEN <<>>
    ELSE IF s[i] \in Whitespace
         THEN <<" ">> \o sub_whitespace_from(s, SkipRun(s, i, Whitespace))
         ELSE <<s[i]>> \o sub_whitespace_from(s, i + 1)

\* line 94: re.sub(r'\s+', ' ', text)
sub_whitespace(s) == sub_whitespace_from(s, 1)

\* mutant of sub_special: the replacement of line 97 is '' instead of ' '
sub_special_deleting(s) == SelectSeq(s, LAMBDA c : c \in AllowedChar)

\* line 97: re.sub(r'[^\w\s\.\,\-\$\%\(\)]', ' ', text)
sub_special(s) ==
    [i \in 1..Len(s) |-> IF s[i] \in AllowedChar THEN s[i] ELSE " "]

RECURSIVE split_from(_, _)
split_from(s, i) ==
    LET b == SkipRun(s, i, Whitespace)
        e == SkipUntil(s, b, Whitespace)
    IN  IF b > Len(s) THEN <<>>
        ELSE <<SubSeq(s, b, e - 1)>> \o split_from(s, e)

\* line 100: text.split()
split(s) == split_from(s, 1)

RECURSIVE join(_, _)
\* line 100: sep.join(words)
join(sep, words) ==
    IF words = <<>> THEN <<>>
    ELSE IF Len(words) = 1 THEN words[1]
    ELSE words[1] \o sep \o join(sep, Tail(words))

\* the literal text of the two page-number patterns
LitPage == <<"P", "a", "g", "e", " ">>
LitOfSpaced == <<" ", "o", "f", " ">>
LitOf == <<"o", "f">>

\* r'Page \d+ of \d+' tried at index i: the index after the match, 0 if none.
\* Each \d+ can only take its whole run of digits: a shorter one would be
\* followed by a digit where the pattern wants a space, and the last \d+ is
\* greedy with nothing after it.
match_page(s, i) ==
    LET d1 == SkipRun(s, i + 5, Digit)
        d2 == SkipRun(s, d1 + 4, Digit)
    IN  IF /\ HasLit(s, i, LitPage)
           /\ d1 > i + 5
           /\ HasLit(s, d1, LitOfSpaced)
           /\ d2 > d1 + 4
        THEN d2 ELSE 0

RECURSIVE sub_page_from(_, _)
sub_page_from(s, i) ==
    IF i > Len(s) THEN <<>>
    ELSE LET e == match_page(s, i)
         IN  IF e > 0 THEN sub_page_from(s, e)
             ELSE <<s[i]>> \o sub_page_from(s, i + 1)

\* line 103: re.sub(r'Page \d+ of \d+', '', text), one left-to-right pass
sub_page(s) == sub_page_from(s, 1)

\* r'\b\d+\s*of\s*\d+\b' tried at index i: the index after the match, 0 if
\* none. Backtracking finds nothing the greedy choice misses: a shorter \d+
\* or \s* is followed by a digit or a space where "of" or a digit is wanted,
\* and a shorter final \d+ ends between two digits, where \b fails.
match_bare(s, i) ==
    LET d1 == SkipRun(s, i, Digit)
        s1 == SkipRun(s, d1, Whitespace)
        s2 == SkipRun(s, s1 + 2, Whitespace)
        d2 == SkipRun(s, s2, Digit)
    IN  IF /\ WordBoundary(s, i)
           /\ d1 > i
           /\ HasLit(s, s1, LitOf)
           /\ d2 > s2
           /\ WordBoundary(s, d2)
        THEN d2 ELSE 0

RECURSIVE sub_bare_from(_, _)
sub_bare_from(s, i) ==
    IF i > Len(s) THEN <<>>
    ELSE LET e == match_bare(s, i)
         IN  IF e > 0 THEN sub_bare_from(s, e)
             ELSE <<s[i]>> \o sub_bare_from(s, i + 1)

\* line 104: re.sub(r'\b\d+\s*of\s*\d+\b', '', text), one left-to-right pass
sub_bare(s) == sub_bare_from(s, 1)

RECURSIVE rstrip(_)
rstrip(s) ==
    IF s # <<>> /\ s[Len(s)] \in Whitespace
    THEN rstrip(SubSeq(s, 1, Len(s) - 1)) ELSE s

\* lines 70, 106: str.strip()
strip(s) == rstrip(SubSeq(s, SkipRun(s, 1, Whitespace), Len(s)))

\* lines 83-106
clean_text(s) ==
    LET t1 == sub_whitespace(s)
        t2 == sub_special(t1)
        t3 == join(<<" ">>, split(t2))
        t4 == sub_page(t3)
        t5 == sub_bare(t4)
    IN  strip(t5)

(***************************************************************************)
(* The object every call below is made on: PDFPreprocessor() with the      *)
(* default arguments of line 34.                                           *)
(***************************************************************************)
DefaultChunkSize == 512
DefaultChunkOverlap == 50

DefaultObject ==
    /\ constructed = TRUE
    /\ chunk_size = DefaultChunkSize
    /\ chunk_overlap = DefaultChunkOverlap
    /\ stop_words = "english"
    /\ init_error = "none"

\* no exception
NoError == [type |-> "none", message |-> <<>>]

\* a file neither library is asked about
NoPdf ==
    [primary_open |-> "ok", primary_pages |-> <<>>,
     secondary_open |-> "ok", secondary_pages |-> <<>>]

\* no extract_text_from_pdf call in progress
ExtractIdle ==
    /\ pdf_path = "none"
    /\ pdf = NoPdf
    /\ pc = "idle"
    /\ page = 0
    /\ text = <<>>
    /\ attempts = <<>>
    /\ log = <<>>
    /\ result = <<>>
    /\ error = NoError

\* no clean_text call made
CleanIdle ==
    /\ raw = <<>>
    /\ previous = <<>>
    /\ cleaned = <<>>
    /\ ncalls = 0

(***************************************************************************)
(* __init__ (lines 34-44): each call builds a new object from its          *)
(* arguments.  The state holds the latest object and the calls made on it, *)
(* so a new object starts with no call made.                               *)
(***************************************************************************)
\* bound of the arguments tried
MaxConfigArg == 5

ConfigArgs == (0 - MaxConfigArg)..MaxConfigArg

ConfigInit ==
    /\ DefaultObject
    /\ ExtractIdle
    /\ CleanIdle

\* what stopwords.words('english') finds at line 44: the corpus, or nothing
\* (LookupError) when the download of lines 23-26 did not bring it
Corpora == {"found", "missing"}

\* PDFPreprocessor(chunk_size=size, chunk_overlap=overlap): lines 42-43 store
\* the arguments as they come, with no check; line 44 loads the stop words
\* and is the only statement that can raise, leaving no object
Construct(size, overlap, corpus) ==
    /\ chunk_size' = size
    /\ chunk_overlap' = overlap
    /\ IF corpus = "found"
       THEN /\ stop_words' = "english"
            /\ constructed' = TRUE
            /\ init_error' = "none"
       ELSE /\ stop_words' = "unset"
            /\ constructed' = FALSE
            /\ init_error' = "LookupError"
    /\ pdf_path' = "none"
    /\ pdf' = NoPdf
    /\ pc' = "idle"
    /\ page' = 0
    /\ text' = <<>>
    /\ attempts' = <<>>
    /\ log' = <<>>
    /\ result' = <<>>
    /\ error' = NoError
    /\ raw' = <<>>
    /\ previous' = <<>>
    /\ cleaned' = <<>>
    /\ ncalls' = 0

ConfigNext ==
    \E size \in ConfigArgs, overlap \in ConfigArgs, corpus \in Corpora :
        Construct(size, overlap, corpus)

SpecConfig == ConfigInit /\ [][ConfigNext]_vars

(***************************************************************************)
(* clean_text as a state machine: the caller picks a string, cleans it,    *)
(* and may clean the returned string again.                                *)
(***************************************************************************)
\* bounds of the inputs
MaxPieces == 4
MaxCleanCalls == 2

\* the fragments the input strings are concatenated from: one character of
\* each class the five steps tell apart, and the two page-number patterns
Pieces ==
    { <<"a">>, <<"é">>, <<"1">>, <<" ">>, <<"\n">>, <<"\f">>, <<"#">>,
      <<"o", "f">>,
      <<" ", "P", "a", "g", "e", " ", "3", " ", "o", "f", " ", "1", "0", " ">>,
      <<" ", "2", " ", "o", "f", " ", "3", " ">> }

RECURSIVE Concat(_)
Concat(ps) == IF ps = <<>> THEN <<>> ELSE ps[1] \o Concat(Tail(ps))

CleanInputs ==
    { Concat(ps) : ps \in UNION { [1..n -> Pieces] : n \in 0..MaxPieces } }

CleanInit ==
    /\ DefaultObject
    /\ ExtractIdle
    /\ raw \in CleanInputs
    /\ previous = raw
    /\ cleaned = raw
    /\ ncalls = 0

\* cleaned = self.clean_text(cleaned)
CleanText ==
    /\ ncalls < MaxCleanCalls
    /\ previous' = cleaned
    /\ cleaned' = clean_text(cleaned)
    /\ ncalls' = ncalls + 1
    /\ UNCHANGED <<raw, config_vars, extract_vars>>

CleanNext == CleanText

SpecClean == CleanInit /\ [][CleanNext]_vars

(***************************************************************************)
(* extract_text_from_pdf (lines 46-81), one action per statement that      *)
(* calls a library, so that the order of the library calls is visible.     *)
(* The file decides, for each library, whether opening it raises and what  *)
(* extract_text() does on each page: raise, or return a str.  pdfplumber   *)
(* may also return None for a page; line 63 treats None like "".  A None   *)
(* from PyPDF2 makes the + of line 75 raise TypeError inside the try, so   *)
(* it is one of the raising outcomes.  Only exceptions derived from        *)
(* Exception are modelled, as only they are caught at lines 66 and 77.     *)
(***************************************************************************)
\* bound of the number of pages each library sees
MaxPages == 2

Paths == {"a.pdf", "b.pdf"}

Raises == [raises |-> TRUE, value |-> <<>>]
Returns(t) == [raises |-> FALSE, value |-> t]

PrimaryOutcomes ==
    {Raises, Returns(<<>>), Returns(<<" ">>), Returns(<<"\f">>),
     Returns(<<"A">>), Returns(<<"B">>)}
SecondaryOutcomes ==
    {Raises, Returns(<<>>), Returns(<<" ">>), Returns(<<"H">>), Returns(<<"W">>)}

PagesOf(outcomes) == UNION { [1..n -> outcomes] : n \in 0..MaxPages }

\* a library whose open raises never shows a page
Pdfs ==
    { d \in [primary_open : {"ok", "raise"}, primary_pages : PagesOf(PrimaryOutcomes),
              secondary_open : {"ok", "raise"}, secondary_pages : PagesOf(SecondaryOutcomes)] :
        /\ d.primary_open = "raise" => d.primary_pages = <<>>
        /\ d.secondary_open = "raise" => d.secondary_pages = <<>> }

\* mutant of primary_append: the truthiness test of line 63 dropped
primary_append_unguarded(t, page_text) == t \o page_text \o <<"\n">>

\* lines 63-64: if page_text: text += page_text + "\n"
primary_append(t, page_text) ==
    IF page_text # <<>> THEN t \o page_text \o <<"\n">> ELSE t

\* mutant of secondary_append: the newline of line 75 dropped
secondary_append_bare(t, page_text) == t \o page_text

\* line 75: text += page.extract_text() + "\n"
secondary_append(t, page_text) == t \o page_text \o <<"\n">>

\* mutant of needs_fallback: "if not text", the strip() of line 70 dropped
needs_fallback_unstripped(t) == t = <<>>

\* line 70: if not text.strip()
needs_fallback(t) == strip(t) = <<>>

\* line 79: ValueError(f"Could not extract text from {pdf_path}")
extraction_error(path) ==
    [type |-> "ValueError",
     message |-> <<"Could not extract text from ", path>>]

\* the call: self.extract_text_from_pdf(path) on a file behaving as d
ExtractInit ==
    /\ DefaultObject
    /\ CleanIdle
    /\ pdf_path \in Paths
    /\ pdf \in Pdfs
    /\ pc = "primary_open"
    /\ page = 0
    /\ text = <<>>
    /\ attempts = <<>>
    /\ log = <<>>
    /\ result = <<>>
    /\ error = NoError

\* lines 56-60, 66-67: text = ""; pdfplumber.open(pdf_path)
PrimaryOpen ==
    /\ pc = "primary_open"
    /\ text' = <<>>
    /\ attempts' = Append(attempts, "pdfplumber")
    /\ IF pdf.primary_open = "raise"
       THEN /\ log' = Append(log, <<"warning", "pdfplumber failed">>)
            /\ pc' = "fallback_check"
            /\ page' = page
       ELSE /\ log' = log
            /\ pc' = "primary_pages"
            /\ page' = 1
    /\ UNCHANGED <<pdf_path, pdf, result, error, config_vars, clean_vars>>

\* lines 61-64, 66-67: one turn of the loop over pdf.pages
PrimaryPage ==
    /\ pc = "primary_pages"
    /\ page <= Len(pdf.primary_pages)
    /\ LET o == pdf.primary_pages[page]
       IN  IF o.raises
           THEN /\ log' = Append(log, <<"warning", "pdfplumber failed">>)
                /\ pc' = "fallback_check"
                /\ UNCHANGED <<text, page>>
           ELSE /\ text' = primary_append(text, o.value)
                /\ page' = page + 1
                /\ UNCHANGED <<log, pc>>
    /\ UNCHANGED <<pdf_path, pdf, attempts, result, error, config_vars, clean_vars>>

\* line 65: the loop is over, the with block exits
PrimaryDone ==
    /\ pc = "primary_pages"
    /\ page > Len(pdf.primary_pages)
    /\ log' = Append(log, <<"info", "pdfplumber">>)
    /\ pc' = "fallback_check"
    /\ UNCHANGED <<pdf_path, pdf, page, text, attempts, result, error,
                   config_vars, clean_vars>>

\* line 70
FallbackCheck ==
    /\ pc = "fallback_check"
    /\ pc' = IF needs_fallback(text) THEN "secondary_open" ELSE "return"
    /\ UNCHANGED <<pdf_path, pdf, page, text, attempts, log, result, error,
                   config_vars, clean_vars>>

\* lines 78-79: logger.error(...); raise ValueError(...)
SecondaryFails ==
    /\ log' = Append(log, <<"error", "PyPDF2 also failed">>)
    /\ error' = extraction_error(pdf_path)
    /\ pc' = "raised"

\* lines 72-73, 77-79: open(pdf_path, 'rb'); PyPDF2.PdfReader(file)
SecondaryOpen ==
    /\ pc = "secondary_open"
    /\ attempts' = Append(attempts, "PyPDF2")
    /\ IF pdf.secondary_open = "raise"
       THEN /\ SecondaryFails
            /\ page' = page
       ELSE /\ pc' = "secondary_pages"
            /\ page' = 1
            /\ UNCHANGED <<log, error>>
    /\ UNCHANGED <<pdf_path, pdf, text, result, config_vars, clean_vars>>

\* lines 74-75, 77-79: one turn of the loop over pdf_reader.pages
SecondaryPage ==
    /\ pc = "secondary_pages"
    /\ page <= Len(pdf.secondary_pages)
    /\ LET o == pdf.secondary_pages[page]
       IN  IF o.raises
           THEN /\ SecondaryFails
                /\ UNCHANGED <<text, page>>
           ELSE /\ text' = secondary_append(text, o.value)
                /\ page' = page + 1
                /\ UNCHANGED <<log, pc, error>>
    /\ UNCHANGED <<pdf_path, pdf, attempts, result, config_vars, clean_vars>>

\* mutant of SecondaryDone: blank text after the fallback treated as a failure
SecondaryDone_rejecting_blank ==
    /\ pc = "secondary_pages"
    /\ page > Len(pdf.secondary_pages)
    /\ IF strip(text) = <<>>
       THEN /\ log' = Append(log, <<"error", "PyPDF2 also failed">>)
            /\ error' = [type |-> "ValueError",
                         message |-> <<"Could not extract text from ", pdf_path>>]
            /\ pc' = "raised"
       ELSE /\ log' = Append(log, <<"info", "PyPDF2">>)
            /\ pc' = "return"
            /\ error' = error
    /\ UNCHANGED <<pdf_path, pdf, page, text, attempts, result,
                   config_vars, clean_vars>>

\* line 76: the loop is over, the with block exits
SecondaryDone ==
    /\ pc = "secondary_pages"
    /\ page > Len(pdf.secondary_pages)
    /\ log' = Append(log, <<"info", "PyPDF2">>)
    /\ pc' = "return"
    /\ UNCHANGED <<pdf_path, pdf, page, text, attempts, result, error,
                   config_vars, clean_vars>>

\* line 81: return text
Return ==
    /\ pc = "return"
    /\ result' = text
    /\ pc' = "returned"
    /\ UNCHANGED <<pdf_path, pdf, page, text, attempts, log, error,
                   config_vars, clean_vars>>

ExtractNext ==
    \/ PrimaryOpen
    \/ PrimaryPage
    \/ PrimaryDone
    \/ FallbackCheck
    \/ SecondaryOpen
    \/ SecondaryPage
    \/ SecondaryDone
    \/ Return

SpecExtract == ExtractInit /\ [][ExtractNext]_vars

(***************************************************************************)
(* The three together: any of the starts above, any of the steps above.    *)
(***************************************************************************)
Init == ConfigInit \/ ExtractInit \/ CleanInit

Next == ConfigNext \/ ExtractNext \/ CleanNext

Spec == Init /\ [][Next]_vars

(***************************************************************************)
(* What the claims about extract_text_from_pdf speak of, read off the      *)
(* file's behaviour alone.                                                 *)
(***************************************************************************)
\* the call is over
Ended == pc \in {"returned", "raised"}

SomePageRaises(pages) == \E i \in 1..Len(pages) : pages[i].raises

PrimaryFails(d) == d.primary_open = "raise" \/ SomePageRaises(d.primary_pages)

PrimaryCompletes(d) == ~PrimaryFails(d)

SecondaryRaises(d) == d.secondary_open = "raise" \/ SomePageRaises(d.secondary_pages)

SecondarySucceeds(d) == ~SecondaryRaises(d)

RECURSIVE BeforeFailure(_)
\* the pages a loop sees before the first one that raises
BeforeFailure(pages) ==
    IF pages = <<>> \/ pages[1].raises THEN <<>>
    ELSE <<pages[1]>> \o BeforeFailure(Tail(pages))

RECURSIVE EachWithNewline(_)
\* the page texts, each followed by a newline, in page order
EachWithNewline(pages) ==
    IF pages = <<>> THEN <<>>
    ELSE pages[1].value \o <<"\n">> \o EachWithNewline(Tail(pages))

RECURSIVE AsReturnedByLibrary(_)
\* the page texts exactly as the library returned them, in page order
AsReturnedByLibrary(pages) ==
    IF pages = <<>> THEN <<>>
    ELSE pages[1].value \o AsReturnedByLibrary(Tail(pages))

\* the pages that have text
WithText(pages) == SelectSeq(pages, LAMBDA o : o.value # <<>>)

\* the text the primary method accumulates: the texts of the pages before
\* its failure, if any, that have text, each followed by a newline
PrimaryAccumulated(d) == EachWithNewline(WithText(BeforeFailure(d.primary_pages)))

Blank(t) == \A i \in 1..Len(t) : t[i] \in Whitespace

CarriesPath(e, path) == \E i \in 1..Len(e.message) : e.message[i] = path

(***************************************************************************)
(* C1                                                                      *)
(***************************************************************************)
\* the secondary method was run and did not raise
SecondaryRanAndSucceeded == "PyPDF2" \in Range(attempts) /\ SecondarySucceeds(pdf)

\* C1 as stated: whenever the primary method raises and the secondary method
\* succeeds returning the text T, the call does not raise and returns exactly
\* T, nothing prepended or appended.
C1_ReturnsSecondaryTextExactly ==
    (Ended /\ PrimaryFails(pdf) /\ SecondaryRanAndSucceeded)
        => /\ pc = "returned"
           /\ error = NoError
           /\ result = AsReturnedByLibrary(pdf.secondary_pages)

\* C1 amended: whenever the primary method raises and the secondary method
\* is run and succeeds, the call does not raise and returns the blank text
\* the primary accumulated before raising (none when it raised at open)
\* followed by every secondary page text followed by a newline.
C1_ReturnsSecondaryTextWithNewlines ==
    (Ended /\ PrimaryFails(pdf) /\ SecondaryRanAndSucceeded)
        => /\ pc = "returned"
           /\ error = NoError
           /\ Blank(PrimaryAccumulated(pdf))
           /\ result = PrimaryAccumulated(pdf) \o EachWithNewline(pdf.secondary_pages)

\* C1 witness: pdfplumber.open raised, PyPDF2 returned "H" for the only page
C1_Witness ==
    /\ pc = "returned"
    /\ pdf.primary_open = "raise"
    /\ pdf.secondary_open = "ok"
    /\ pdf.secondary_pages = <<Returns(<<"H">>)>>
    /\ attempts = <<"pdfplumber", "PyPDF2">>
    /\ result = <<"H", "\n">>

(***************************************************************************)
(* C2                                                                      *)
(***************************************************************************)
\* C2: if the primary method yields no usable text and the
\* secondary method raises, at open or on any page, the call fails with the
\* typed ExtractionError carrying the source path, and returns no text.
C2_RaisesExtractionError ==
    (Ended /\ Blank(PrimaryAccumulated(pdf)) /\ SecondaryRaises(pdf))
        => /\ pc = "raised"
           /\ error.type = "ExtractionError"
           /\ CarriesPath(error, pdf_path)
           /\ result = <<>>

(***************************************************************************)
(* C3                                                                      *)
(***************************************************************************)
\* C3 as stated: if the primary method produces blank text and the secondary
\* method completes without raising but produces only blank text too, the
\* call raises an error carrying the source path instead of returning.
C3_BlankFromBothRaises ==
    (/\ Ended
     /\ Blank(PrimaryAccumulated(pdf))
     /\ SecondarySucceeds(pdf)
     /\ Blank(EachWithNewline(pdf.secondary_pages)))
        => /\ pc = "raised"
           /\ CarriesPath(error, pdf_path)

\* C3 amended: in that case the call does not raise: it returns the blank
\* text, the primary's followed by the secondary's page texts each followed
\* by a newline.
C3_BlankFromBothIsReturned ==
    (/\ Ended
     /\ Blank(PrimaryAccumulated(pdf))
     /\ SecondarySucceeds(pdf)
     /\ Blank(EachWithNewline(pdf.secondary_pages)))
        => /\ pc = "returned"
           /\ error = NoError
           /\ result = PrimaryAccumulated(pdf) \o EachWithNewline(pdf.secondary_pages)

\* C3 witness: both methods ran to completion and the returned text is one
\* blank page of each
C3_Witness ==
    /\ pc = "returned"
    /\ attempts = <<"pdfplumber", "PyPDF2">>
    /\ PrimaryCompletes(pdf)
    /\ pdf.primary_pages = <<Returns(<<" ">>)>>
    /\ pdf.secondary_pages = <<Returns(<<" ">>)>>
    /\ result = <<" ", "\n", " ", "\n">>

(***************************************************************************)
(* C9                                                                      *)
(***************************************************************************)
\* C9 as stated: any failure of the primary method, at open or on any page,
\* also after earlier pages yielded text, never reaches the caller, and the
\* secondary method is attempted after every primary failure.
C9_SecondaryAfterEveryPrimaryFailure ==
    /\ error \in {NoError, extraction_error(pdf_path)}
    /\ (Ended /\ PrimaryFails(pdf)) => attempts = <<"pdfplumber", "PyPDF2">>

\* C9 amended: any failure of the primary method never reaches the caller
\* and ends the primary method; the secondary method is attempted after it
\* if and only if the text the primary accumulated before failing is blank.
C9_SecondaryAfterBlankPrimaryFailure ==
    /\ error \in {NoError, extraction_error(pdf_path)}
    /\ (PrimaryFails(pdf) /\ pc \notin {"primary_open", "primary_pages"})
            => /\ log[1] = <<"warning", "pdfplumber failed">>
               /\ text = PrimaryAccumulated(pdf) \/ "PyPDF2" \in Range(attempts)
    /\ (Ended /\ PrimaryFails(pdf))
            => ("PyPDF2" \in Range(attempts) <=> Blank(PrimaryAccumulated(pdf)))
    /\ (Ended /\ PrimaryFails(pdf) /\ ~Blank(PrimaryAccumulated(pdf)))
            => /\ pc = "returned"
               /\ attempts = <<"pdfplumber">>
               /\ result = PrimaryAccumulated(pdf)

\* C9 witness: pdfplumber raised on page 2 after page 1 gave "A"; the call
\* returned "A\n" and PyPDF2 was never opened
C9_Witness ==
    /\ pc = "returned"
    /\ Len(pdf.primary_pages) = 2
    /\ pdf.primary_pages[1] = Returns(<<"A">>)
    /\ pdf.primary_pages[2].raises
    /\ attempts = <<"pdfplumber">>
    /\ result = <<"A", "\n">>

(***************************************************************************)
(* C10                                                                     *)
(***************************************************************************)
\* C10 as stated: each method is attempted at most once and the secondary
\* never before the primary; the secondary is attempted if and only if the
\* text the primary accumulated is blank; when the primary completes with
\* non-blank text the secondary is not invoked, nothing is raised and the
\* returned text is exactly the primary's per-page texts, each followed by a
\* newline, in page order; every call ends, either returning text or raising
\* after the secondary was attempted.
C10_EveryPageTextWithNewline ==
    /\ attempts \in {<<>>, <<"pdfplumber">>, <<"pdfplumber", "PyPDF2">>}
    /\ "PyPDF2" \in Range(attempts) => Blank(PrimaryAccumulated(pdf))
    /\ Ended => ("PyPDF2" \in Range(attempts) <=> Blank(PrimaryAccumulated(pdf)))
    /\ (Ended /\ PrimaryCompletes(pdf) /\ ~Blank(PrimaryAccumulated(pdf)))
            => /\ attempts = <<"pdfplumber">>
               /\ pc = "returned"
               /\ error = NoError
               /\ result = EachWithNewline(pdf.primary_pages)
    /\ pc = "returned" => error = NoError
    /\ pc = "raised" => (attempts = <<"pdfplumber", "PyPDF2">> /\ result = <<>>)
    /\ Ended \/ ENABLED ExtractNext

\* C10 amended: as stated, except that the returned text is the texts of the
\* primary's pages that have text, each followed by a newline, in page
\* order: a page whose text is empty (or None) adds nothing, not even a
\* newline.
C10_FallbackOrder ==
    /\ attempts \in {<<>>, <<"pdfplumber">>, <<"pdfplumber", "PyPDF2">>}
    /\ "PyPDF2" \in Range(attempts) => Blank(PrimaryAccumulated(pdf))
    /\ Ended => ("PyPDF2" \in Range(attempts) <=> Blank(PrimaryAccumulated(pdf)))
    /\ (Ended /\ PrimaryCompletes(pdf) /\ ~Blank(PrimaryAccumulated(pdf)))
            => /\ attempts = <<"pdfplumber">>
               /\ pc = "returned"
               /\ error = NoError
               /\ result = PrimaryAccumulated(pdf)
    /\ pc = "returned" => error = NoError
    /\ pc = "raised" => (attempts = <<"pdfplumber", "PyPDF2">> /\ result = <<>>)
    /\ Ended \/ ENABLED ExtractNext

\* C10 witness: a page without text followed by a page "A"; one method
\* attempted, "A\n" returned
C10_Witness ==
    /\ pc = "returned"
    /\ pdf.primary_pages = <<Returns(<<>>), Returns(<<"A">>)>>
    /\ attempts = <<"pdfplumber">>
    /\ error = NoError
    /\ result = <<"A", "\n">>

(***************************************************************************)
(* C8                                                                      *)
(***************************************************************************)
\* C8: a chunk size <= 0 or an overlap >= the chunk size is rejected with
\* ConfigurationError, so no object with chunk_size <= 0 or
\* chunk_overlap >= chunk_size is ever built.
C8_InvalidConfigRejected ==
    /\ constructed => (chunk_size > 0 /\ chunk_overlap < chunk_size)
    /\ init_error # "none" =>
          (init_error = "ConfigurationError" <=>
              (chunk_size <= 0 \/ chunk_overlap >= chunk_size))

(***************************************************************************)
(* What the claims about clean_text speak of.                              *)
(***************************************************************************)
\* s with every character outside the allowed set replaced by one space
SpacedOut(s) == [i \in 1..Len(s) |-> IF s[i] \in AllowedChar THEN s[i] ELSE " "]

NoConsecutiveWhitespace(s) ==
    \A i \in 1..(Len(s) - 1) : ~(s[i] \in Whitespace /\ s[i + 1] \in Whitespace)

NoOuterWhitespace(s) ==
    s # <<>> => (s[1] \notin Whitespace /\ s[Len(s)] \notin Whitespace)

\* some substring of s matches "Page <int> of <int>"
HasPageNumber(s) == \E i \in 1..Len(s) : match_page(s, i) > 0

\* some standalone token sequence of s matches "<int> of <int>"
HasBareNumber(s) == \E i \in 1..Len(s) : match_bare(s, i) > 0

(***************************************************************************)
(* C4                                                                      *)
(***************************************************************************)
\* C4: the output of clean_text has no two consecutive whitespace characters
\* and no leading or trailing whitespace, for every input, also when a
\* page-number pattern sits between two words.
C4_NoConsecutiveWhitespace ==
    ncalls >= 1 => (NoConsecutiveWhitespace(cleaned) /\ NoOuterWhitespace(cleaned))

(***************************************************************************)
(* C5                                                                      *)
(***************************************************************************)
\* C5: clean_text is idempotent: cleaning the output of clean_text returns
\* it unchanged.
C5_Idempotent == ncalls = 2 => cleaned = previous

(***************************************************************************)
(* C6                                                                      *)
(***************************************************************************)
\* C6: the output of clean_text holds no page-number artifact: no substring
\* matching "Page <int> of <int>" and no standalone "<int> of <int>", also
\* when removing one match brings its surroundings together into a new one.
C6_NoPageNumberResidue ==
    ncalls >= 1 => (~HasPageNumber(cleaned) /\ ~HasBareNumber(cleaned))

(***************************************************************************)
(* C7                                                                      *)
(***************************************************************************)
\* C7: every character of the output of clean_text is in the allowed set,
\* and a disallowed input character acts as a space, not as nothing: the
\* output is the one clean_text gives for the input with a space written in
\* place of each disallowed character, so the characters on either side of
\* it end up apart.
C7_AllowedCharactersOnly ==
    ncalls = 1 =>
        /\ \A i \in 1..Len(cleaned) : cleaned[i] \in AllowedChar
        /\ cleaned = clean_text(SpacedOut(raw))
        /\ (/\ Len(raw) = 3
            /\ raw[1] \in Letter
            /\ raw[2] \notin AllowedChar
            /\ raw[3] \in Letter) => cleaned = <<raw[1], " ", raw[3]>>

\* C7 witness: "a#a" was cleaned to "a a"
C7_Witness ==
    /\ ncalls = 1
    /\ raw = <<"a", "#", "a">>
    /\ cleaned = <<"a", " ", "a">>

=============================================================================
